---- MODULE Spec2Model ----
(***************************************************************************)
(* PNGme chunk codec: the 4-byte ChunkType (src/chunk_type.rs) and the     *)
(* Chunk record with its CRC-32 and wire layout (src/chunk.rs).            *)
(*                                                                         *)
(* A byte is an integer 0..255.  A u32 is the pair <<hi, lo>> of its two   *)
(* 16-bit halves (value hi * 2^16 + lo), a usize the same pair with an     *)
(* unbounded hi, so that 2^31 and 2^32 + 1 are values of the model.        *)
(***************************************************************************)
EXTENDS Integers, Sequences, FiniteSets

\* ------------------------------------------------------------ bounds
\* Longest explicit payload handed to Chunk::new.
MaxData == 2
\* Longest text handed to ChunkType::from_str.
MaxStr == 5
\* Longest hand-written buffer handed to Chunk::try_from.
MaxRaw == 8
\* Most corruptions (a byte overwritten, a tail cut off) of one buffer.
MaxEdits == 1

\* Bytes type codes are drawn from: '1' (ASCII, no letter), 'S', 't'.
TypeBytes == {49, 83, 116}
\* Bytes payloads are drawn from (they differ in one bit).
DataBytes == {0, 1}
\* Bytes a corrupted or hand-written buffer is drawn from.
EditBytes == {0, 1, 128}

Half == 256 * 256

\* ------------------------------------------------------------ u8 helpers
\* u8::is_ascii_uppercase
is_ascii_uppercase(b) == b \in 65..90

\* u8::is_ascii_lowercase
is_ascii_lowercase(b) == b \in 97..122

\* u8::is_ascii_alphabetic
is_ascii_alphabetic(b) == is_ascii_uppercase(b) \/ is_ascii_lowercase(b)

\* ------------------------------------------------------------ u32 / usize
\* u32::from_be_bytes
from_be_bytes(b) == <<b[1] * 256 + b[2], b[3] * 256 + b[4]>>

\* u32::to_be_bytes
to_be_bytes(n) == <<n[1] \div 256, n[1] % 256, n[2] \div 256, n[2] % 256>>

\* a > b on two-limb numbers
Gt(a, b) == a[1] > b[1] \/ (a[1] = b[1] /\ a[2] > b[2])

\* the usize of a small natural number
ToSize(n) == <<n \div Half, n % Half>>

\* a + n for a usize a and a small natural number n
AddSize(a, n) == <<a[1] + ((a[2] + n) \div Half), (a[2] + n) % Half>>

\* `as u32` on a usize: the low 32 bits
as_u32(a) == <<a[1] % Half, a[2]>>

\* A variant that admits every u32: u32::MAX in place of (1 << 31) - 1.
MAXIMUM_LENGTH_u32_max == <<Half - 1, Half - 1>>

\* const MAXIMUM_LENGTH: u32 = (1 << 31) - 1
MAXIMUM_LENGTH == <<(Half \div 2) - 1, Half - 1>>

\* ------------------------------------------------------------ CRC-32
\* Bit i of a.
Bit(a, i) == (a \div (2 ^ i)) % 2

\* a ^ b on 16-bit halves
Xor16(a, b) ==
    LET x(i) == ((Bit(a, i) + Bit(b, i)) % 2) * (2 ^ i)
    IN  (((x(0) + x(1)) + (x(2) + x(3))) + ((x(4) + x(5)) + (x(6) + x(7))))
        + (((x(8) + x(9)) + (x(10) + x(11))) + ((x(12) + x(13)) + (x(14) + x(15))))

\* a ^ b on u32
Xor(a, b) == <<Xor16(a[1], b[1]), Xor16(a[2], b[2])>>

\* a >> 1 on u32
Shr(a) == <<a[1] \div 2, (a[2] \div 2) + (a[1] % 2) * (Half \div 2)>>

\* CRC_32_ISO_HDLC: poly 0x04c11db7 with refin and refout, i.e. the
\* reflected polynomial 0xEDB88320.
CRC_POLY == <<60856, 33568>>

\* CRC_32_ISO_HDLC: init 0xffffffff, xorout 0xffffffff.
CRC_ONES == <<Half - 1, Half - 1>>

\* One round of the reflected shift register.
CrcRound(r) == IF r[2] % 2 = 1 THEN Xor(Shr(r), CRC_POLY) ELSE Shr(r)

\* Entry i of the byte table: 8 rounds on i.
CrcTable(i) ==
    CrcRound(CrcRound(CrcRound(CrcRound(
        CrcRound(CrcRound(CrcRound(CrcRound(<<0, i>>))))))))

\* a >> 8 on u32
Shr8(a) == <<a[1] \div 256, (a[2] \div 256) + (a[1] % 256) * 256>>

\* The register after one more byte b: (r >> 8) ^ table[(r ^ b) & 0xff].
CrcByte(r, b) == Xor(Shr8(r), CrcTable(Xor16(r[2] % 256, b)))

RECURSIVE CrcUpdate(_, _, _)
\* The register after the bytes bs[k], ..., bs[Len(bs)], starting from r
\* (r is a u32, so the halves are compared before the next byte is taken).
CrcUpdate(r, bs, k) ==
    IF k > Len(bs) \/ r[1] >= Half \/ r[2] >= Half THEN r
    ELSE CrcUpdate(CrcByte(r, bs[k]), bs, k + 1)

\* Crc::<u32>::new(&CRC_32_ISO_HDLC).checksum(bytes)
checksum(bs) == Xor(CrcUpdate(CRC_ONES, bs, 1), CRC_ONES)

\* ------------------------------------------------------------ ChunkType
\* No value (nothing constructed yet, or moved away).
None == [tag |-> "None"]

\* struct ChunkType { ancillary, private, reserved, safe_to_copy }
ChunkType(b) ==
    [ancillary |-> b[1], private |-> b[2], reserved |-> b[3], safe_to_copy |-> b[4]]

\* ChunkType::bytes
bytes(t) == <<t.ancillary, t.private, t.reserved, t.safe_to_copy>>

\* ChunkType::is_critical
is_critical(t) == IF is_ascii_uppercase(t.ancillary) THEN TRUE ELSE FALSE

\* ChunkType::is_public
is_public(t) == IF is_ascii_uppercase(t.private) THEN TRUE ELSE FALSE

\* ChunkType::is_reserved_bit_valid
is_reserved_bit_valid(t) == IF is_ascii_uppercase(t.reserved) THEN TRUE ELSE FALSE

\* A variant with the polarity of the other three flags.
is_safe_to_copy_same_polarity(t) ==
    IF is_ascii_uppercase(t.safe_to_copy) THEN TRUE ELSE FALSE

\* ChunkType::is_safe_to_copy
is_safe_to_copy(t) == IF is_ascii_uppercase(t.safe_to_copy) THEN FALSE ELSE TRUE

\* impl TryFrom<[u8; 4]> for ChunkType
ChunkType_try_from(b) ==
    IF ~is_ascii_uppercase(b[3])
    THEN [tag |-> "Err", err |-> "Invalid Byte"]
    ELSE [tag |-> "Ok", val |-> ChunkType(b)]

\* impl FromStr for ChunkType.  The loop refuses the first byte that is no
\* letter; bytes[0..3] then panic on a text shorter than 4 bytes, and a
\* longer text keeps its first 4 bytes.
from_str(s) ==
    IF \E i \in 1..Len(s) : ~is_ascii_alphabetic(s[i])
    THEN [tag |-> "Err", err |-> "Invalid Byte"]
    ELSE IF Len(s) < 4
    THEN [tag |-> "Panic", err |-> "index out of bounds"]
    ELSE [tag |-> "Ok", val |-> ChunkType(s)]

RECURSIVE Decimal(_)
\* impl Display for u8: the decimal digits, as character codes.
Decimal(n) ==
    IF n < 10 THEN <<48 + n>> ELSE Append(Decimal(n \div 10), 48 + (n % 10))

\* impl Display for ChunkType: write!(f, "{}, {}, {}, {}", ...) of four u8.
ChunkType_fmt(t) ==
    Decimal(t.ancillary) \o <<44, 32>> \o Decimal(t.private) \o <<44, 32>>
        \o Decimal(t.reserved) \o <<44, 32>> \o Decimal(t.safe_to_copy)

\* ------------------------------------------------------------ Chunk
\* A Vec<u8>: the bytes `elems` followed by `zeros` zero bytes, so that
\* vec![0; n] has a value for every usize n.
Vec(bs) == [elems |-> bs, zeros |-> ToSize(0)]

\* vec![0; n]
ZeroVec(n) == [elems |-> <<>>, zeros |-> n]

\* Vec::len
VecLen(v) == AddSize(v.zeros, Len(v.elems))

\* Chunk::new
Chunk_new(chunk_type, chunk_data) ==
    [chunk_type |-> chunk_type, chunk_data |-> chunk_data]

\* Chunk::length
length(c) == as_u32(VecLen(c.chunk_data))

\* A variant whose checksum also covers the 4-byte length field.
crc_with_length(c) ==
    checksum(to_be_bytes(length(c)) \o bytes(c.chunk_type) \o c.chunk_data.elems)

\* Chunk::crc, over the type's bytes chained with the data
crc(c) == checksum(bytes(c.chunk_type) \o c.chunk_data.elems)

\* Chunk::as_bytes
as_bytes(c) ==
    to_be_bytes(length(c)) \o bytes(c.chunk_type) \o c.chunk_data.elems
        \o to_be_bytes(crc(c))

\* A variant without the last read_exact, whose result the code never uses.
Chunk_try_from_no_crc_read(bs) ==
    IF Len(bs) < 4 THEN [tag |-> "Err", err |-> "UnexpectedEof", pos |-> 0]
    ELSE LET len == from_be_bytes(SubSeq(bs, 1, 4)) IN
    IF Gt(len, MAXIMUM_LENGTH)
    THEN [tag |-> "Err", err |-> "Length is greater than 2^31 - 1)", pos |-> 4]
    ELSE IF Len(bs) < 8 THEN [tag |-> "Err", err |-> "UnexpectedEof", pos |-> 4]
    ELSE LET chunk_type == ChunkType_try_from(SubSeq(bs, 5, 8)) IN
    IF chunk_type.tag = "Err"
    THEN [tag |-> "Err", err |-> chunk_type.err, pos |-> 8]
    ELSE IF Gt(len, ToSize(Len(bs) - 8))
    THEN [tag |-> "Err", err |-> "UnexpectedEof", pos |-> 8]
    ELSE [tag |-> "Ok",
          val |-> Chunk_new(chunk_type.val, Vec(SubSeq(bs, 9, 8 + len[2]))),
          pos |-> 8 + len[2]]

\* impl TryFrom<&[u8]> for Chunk.  Every read_exact that finds too few
\* bytes left returns the reader's error; `pos` counts the bytes read.
Chunk_try_from(bs) ==
    IF Len(bs) < 4 THEN [tag |-> "Err", err |-> "UnexpectedEof", pos |-> 0]
    ELSE LET len == from_be_bytes(SubSeq(bs, 1, 4)) IN
    IF Gt(len, MAXIMUM_LENGTH)
    THEN [tag |-> "Err", err |-> "Length is greater than 2^31 - 1)", pos |-> 4]
    ELSE IF Len(bs) < 8 THEN [tag |-> "Err", err |-> "UnexpectedEof", pos |-> 4]
    ELSE LET chunk_type == ChunkType_try_from(SubSeq(bs, 5, 8)) IN
    IF chunk_type.tag = "Err"
    THEN [tag |-> "Err", err |-> chunk_type.err, pos |-> 8]
    ELSE IF Gt(len, ToSize(Len(bs) - 8))
    THEN [tag |-> "Err", err |-> "UnexpectedEof", pos |-> 8]
    ELSE LET chunk_data == SubSeq(bs, 9, 8 + len[2]) IN
    IF ToSize(Len(chunk_data)) # len
    THEN [tag |-> "Err", err |-> "Data is the wrong length", pos |-> 8 + len[2]]
    ELSE IF Len(bs) - (8 + len[2]) < 4
    THEN [tag |-> "Err", err |-> "UnexpectedEof", pos |-> 8 + len[2]]
    ELSE [tag |-> "Ok", val |-> Chunk_new(chunk_type.val, Vec(chunk_data)),
          pos |-> 12 + len[2]]

\* ------------------------------------------------------------ state
VARIABLES
    arg,         \* the argument of the last ChunkType constructor call
    chunk_type,  \* what that call returned: Ok(ChunkType), Err or a panic
    text,        \* chunk_type.to_string(), once asked for
    flags,       \* the four flag queries on chunk_type, once asked for
    chunk,       \* the Chunk built by Chunk::new (it owns the ChunkType)
    wire,        \* a byte buffer: chunk.as_bytes(), corrupted or hand-written
    parsed       \* Chunk::try_from(wire)

vars == <<arg, chunk_type, text, flags, chunk, wire, parsed>>

\* All byte sequences over S of length lo..hi.
SeqsOf(S, lo, hi) == UNION {[1..n -> S] : n \in lo..hi}

\* Payload sizes around the limits of the length field: 2^31 - 1, 2^31,
\* 2^32 + 1.
BigLens == {MAXIMUM_LENGTH, AddSize(MAXIMUM_LENGTH, 1), <<Half, 1>>}

\* The payloads handed to Chunk::new.
Payloads ==
    {Vec(d) : d \in SeqsOf(DataBytes, 0, MaxData)} \cup {ZeroVec(n) : n \in BigLens}

NoWire == [from |-> "none", bs |-> <<>>, edits |-> 0]

Init ==
    /\ arg = None
    /\ chunk_type = None
    /\ text = None
    /\ flags = None
    /\ chunk = None
    /\ wire = NoWire
    /\ parsed = None

\* Nothing is in scope.
Empty ==
    /\ arg = None
    /\ chunk_type = None
    /\ chunk = None
    /\ wire = NoWire

\* The scope ends: every value in it is dropped.
Drop ==
    /\ ~Empty
    /\ arg' = None
    /\ chunk_type' = None
    /\ text' = None
    /\ flags' = None
    /\ chunk' = None
    /\ wire' = NoWire
    /\ parsed' = None

\* ChunkType::try_from(b) on 4 raw bytes
FromBytes ==
    /\ Empty
    /\ \E b \in [1..4 -> TypeBytes] :
        /\ arg' = [tag |-> "bytes", val |-> b]
        /\ chunk_type' = ChunkType_try_from(b)
        /\ UNCHANGED <<text, flags, chunk, wire, parsed>>

\* ChunkType::from_str(s) on a text of ASCII characters
FromStr ==
    /\ Empty
    /\ \E s \in SeqsOf(TypeBytes, 0, MaxStr) :
        /\ arg' = [tag |-> "str", val |-> s]
        /\ chunk_type' = from_str(s)
        /\ UNCHANGED <<text, flags, chunk, wire, parsed>>

\* chunk_type.to_string()
Display ==
    /\ chunk_type.tag = "Ok"
    /\ text = None
    /\ text' = [tag |-> "Ok", val |-> ChunkType_fmt(chunk_type.val)]
    /\ UNCHANGED <<arg, chunk_type, flags, chunk, wire, parsed>>

\* is_critical(), is_public(), is_reserved_bit_valid(), is_safe_to_copy()
Flags ==
    /\ chunk_type.tag = "Ok"
    /\ flags = None
    /\ flags' = [tag |-> "Ok",
                 is_critical |-> is_critical(chunk_type.val),
                 is_public |-> is_public(chunk_type.val),
                 is_reserved_bit_valid |-> is_reserved_bit_valid(chunk_type.val),
                 is_safe_to_copy |-> is_safe_to_copy(chunk_type.val)]
    /\ UNCHANGED <<arg, chunk_type, text, chunk, wire, parsed>>

\* Chunk::new(chunk_type, d): the ChunkType moves into the Chunk.
New ==
    /\ chunk_type.tag = "Ok"
    /\ \E d \in Payloads :
        /\ chunk' = [tag |-> "Ok", val |-> Chunk_new(chunk_type.val, d)]
        /\ arg' = None
        /\ chunk_type' = None
        /\ text' = None
        /\ flags' = None
        /\ UNCHANGED <<wire, parsed>>

\* chunk.as_bytes(), for a payload small enough to write out
AsBytes ==
    /\ chunk.tag = "Ok"
    /\ chunk.val.chunk_data.zeros = ToSize(0)
    /\ wire.from = "none"
    /\ wire' = [from |-> "as_bytes", bs |-> as_bytes(chunk.val), edits |-> 0]
    /\ UNCHANGED <<arg, chunk_type, text, flags, chunk, parsed>>

\* A buffer written by hand instead of by as_bytes.
Raw ==
    /\ Empty
    /\ \E b \in SeqsOf(EditBytes, 0, MaxRaw) :
        /\ wire' = [from |-> "raw", bs |-> b, edits |-> 0]
        /\ UNCHANGED <<arg, chunk_type, text, flags, chunk, parsed>>

\* Corruption in transit: one byte of the serialized chunk is overwritten.
SetByte ==
    /\ wire.from = "as_bytes"
    /\ wire.edits < MaxEdits
    /\ parsed = None
    /\ \E i \in 1..Len(wire.bs), v \in EditBytes :
        /\ v # wire.bs[i]
        /\ wire' = [wire EXCEPT !.bs[i] = v, !.edits = @ + 1]
        /\ UNCHANGED <<arg, chunk_type, text, flags, chunk, parsed>>

\* Corruption in transit: the serialized chunk loses its tail.
Truncate ==
    /\ wire.from = "as_bytes"
    /\ wire.edits < MaxEdits
    /\ parsed = None
    /\ \E n \in 0..(Len(wire.bs) - 1) :
        /\ wire' = [wire EXCEPT !.bs = SubSeq(wire.bs, 1, n), !.edits = @ + 1]
        /\ UNCHANGED <<arg, chunk_type, text, flags, chunk, parsed>>

\* Chunk::try_from(wire)
TryFrom ==
    /\ wire.from # "none"
    /\ parsed = None
    /\ parsed' = Chunk_try_from(wire.bs)
    /\ UNCHANGED <<arg, chunk_type, text, flags, chunk, wire>>

Next ==
    \/ FromBytes
    \/ FromStr
    \/ Display
    \/ Flags
    \/ New
    \/ AsBytes
    \/ Raw
    \/ SetByte
    \/ Truncate
    \/ TryFrom
    \/ Drop

Spec == Init /\ [][Next]_vars

\* ------------------------------------------------------------ properties
AllAlphabetic(s) == \A i \in 1..Len(s) : is_ascii_alphabetic(s[i])

\* The length a buffer of at least 4 bytes declares, as its two halves.
DeclaredHi(bs) == bs[1] * 256 + bs[2]
DeclaredLo(bs) == bs[3] * 256 + bs[4]

\* C1: Chunk::try_from returns Ok only if the 4 bytes after the payload it
\* consumed, read as a big-endian u32, equal the CRC-32 of the type code's
\* bytes followed by that payload.
ChecksumEnforced ==
    parsed.tag = "Ok" =>
        from_be_bytes(SubSeq(wire.bs, parsed.pos - 3, parsed.pos))
            = checksum(bytes(parsed.val.chunk_type) \o parsed.val.chunk_data.elems)

\* C2: parsing the bytes as_bytes wrote for Chunk::new(t, d) succeeds and
\* gives back the type code's bytes and the payload, for every type code a
\* ChunkType can hold.
RoundTrip ==
    (parsed # None /\ wire.from = "as_bytes" /\ wire.edits = 0) =>
        /\ parsed.tag = "Ok"
        /\ bytes(parsed.val.chunk_type) = bytes(chunk.val.chunk_type)
        /\ parsed.val.chunk_data = chunk.val.chunk_data

RawConstructionTotal ==
    arg.tag = "bytes" =>
        /\ chunk_type.tag = "Ok"
        /\ bytes(chunk_type.val) = arg.val

\* C5: ChunkType::from_str never panics and returns Ok exactly for a text
\* of exactly 4 bytes, all ASCII letters, whose bytes it then holds.
TextConstructionValidated ==
    arg.tag = "str" =>
        /\ chunk_type.tag # "Panic"
        /\ chunk_type.tag = "Ok" <=> (Len(arg.val) = 4 /\ AllAlphabetic(arg.val))
        /\ chunk_type.tag = "Ok" => bytes(chunk_type.val) = arg.val

\* C6: to_string() of the ChunkType parsed from a text of 4 ASCII letters
\* is that text.
TextRoundTrip ==
    (text.tag = "Ok" /\ arg.tag = "str" /\ Len(arg.val) = 4 /\ AllAlphabetic(arg.val))
        => text.val = arg.val

\* C7 as stated: the first three flags are true iff their byte is an
\* uppercase ASCII letter, is_safe_to_copy() iff byte 3 is a lowercase
\* ASCII letter.
FlagsByCase ==
    flags.tag = "Ok" =>
        LET b == bytes(chunk_type.val)
        IN  /\ flags.is_critical <=> b[1] \in 65..90
            /\ flags.is_public <=> b[2] \in 65..90
            /\ flags.is_reserved_bit_valid <=> b[3] \in 65..90
            /\ flags.is_safe_to_copy <=> b[4] \in 97..122

\* C7 amended: the first three flags are true iff their byte is an
\* uppercase ASCII letter, is_safe_to_copy() iff byte 3 is not an
\* uppercase ASCII letter.
FlagsByUppercase ==
    flags.tag = "Ok" =>
        LET b == bytes(chunk_type.val)
        IN  /\ flags.is_critical <=> b[1] \in 65..90
            /\ flags.is_public <=> b[2] \in 65..90
            /\ flags.is_reserved_bit_valid <=> b[3] \in 65..90
            /\ flags.is_safe_to_copy <=> b[4] \notin 65..90

\* The flags of a type code built from raw bytes whose byte 3 is a digit.
FlagsWitness ==
    /\ flags.tag = "Ok"
    /\ arg.tag = "bytes"
    /\ chunk_type.val.safe_to_copy = 49
    /\ flags.is_safe_to_copy

\* C8: a buffer whose first 4 bytes, big-endian, exceed 2^31 - 1 is refused
\* with the length error after those 4 bytes, whatever follows them.
OversizedLengthFirst ==
    (parsed # None /\ Len(wire.bs) >= 4 /\ wire.bs[1] >= 128) =>
        /\ parsed.tag = "Err"
        /\ parsed.err = "Length is greater than 2^31 - 1)"
        /\ parsed.pos = 4

\* A buffer of nothing but an oversized length field has been refused.
OversizedLengthWitness ==
    /\ parsed.tag = "Err"
    /\ parsed.err = "Length is greater than 2^31 - 1)"
    /\ Len(wire.bs) = 4

\* C9: a buffer with fewer than 8 header bytes, fewer payload bytes than
\* its declared length L <= 2^31 - 1, or fewer than 4 bytes after them is
\* refused with an error; a chunk that is returned holds exactly the L
\* bytes after the type code and length() = L.
TruncatedRejected ==
    parsed # None =>
        /\ Len(wire.bs) < 8 => parsed.tag = "Err"
        /\ (/\ Len(wire.bs) >= 8
            /\ wire.bs[1] < 128
            /\ \/ DeclaredHi(wire.bs) > 0
               \/ Len(wire.bs) - 8 < DeclaredLo(wire.bs) + 4)
           => parsed.tag = "Err"
        /\ parsed.tag = "Ok" =>
            /\ DeclaredHi(wire.bs) = 0
            /\ parsed.val.chunk_data
                 = Vec(SubSeq(wire.bs, 9, 8 + DeclaredLo(wire.bs)))
            /\ Len(parsed.val.chunk_data.elems) = DeclaredLo(wire.bs)
            /\ length(parsed.val) = <<0, DeclaredLo(wire.bs)>>

\* A serialized chunk that lost part of its checksum has been refused.
TruncatedWitness ==
    /\ parsed.tag = "Err"
    /\ parsed.err = "UnexpectedEof"
    /\ wire.from = "as_bytes"
    /\ Len(wire.bs) >= 8
    /\ DeclaredLo(wire.bs) = 1
    /\ Len(wire.bs) = 8 + DeclaredLo(wire.bs) + 2

\* C10: every Chunk, built by Chunk::new or returned by try_from, has a
\* payload of at most 2^31 - 1 bytes, length() is its byte count, and the
\* length field as_bytes() writes is at most 2^31 - 1.
PayloadBounded ==
    /\ chunk.tag = "Ok" =>
        /\ ~Gt(VecLen(chunk.val.chunk_data), MAXIMUM_LENGTH)
        /\ length(chunk.val) = VecLen(chunk.val.chunk_data)
        /\ to_be_bytes(length(chunk.val))[1] < 128
    /\ parsed.tag = "Ok" =>
        /\ ~Gt(VecLen(parsed.val.chunk_data), MAXIMUM_LENGTH)
        /\ length(parsed.val) = VecLen(parsed.val.chunk_data)

====
